---- MODULE Spec2Model ----
(***************************************************************************)
(* A model of aoede: the EmittedSink byte bridge (src/lib/player.rs), the  *)
(* SpotifyPlayer connect-session controller (src/lib/player.rs) and the    *)
(* Discord event handler with its player-event loop (src/main.rs).         *)
(***************************************************************************)
EXTENDS Integers, Sequences, FiniteSets, TLC

(***************************************************************************)
(* Bounds and inputs                                                       *)
(***************************************************************************)

\* sync_channel::<u8>(24): the bound of the byte channel.
Capacity == 24

\* Number of write() calls a behaviour may start.
MaxWrites == 2

\* The threads that own a clone of the sink and call write() / read().
Producers == {"p1", "p2"}
Readers == {"r1", "r2"}

\* f32 bit patterns of the samples a resampled block may hold
\* (0x3DCCCCCD = 0.1f, 0x40490FDB = 3.1415927f).
Samples == {1036831949, 1078530011}

\* The results samplerate::convert may hand back: stereo, so an even number
\* of samples; one block of 8 bytes and one of 16 bytes once encoded.
ResampledBlocks ==
    { <<1036831949, 1078530011>>,
      <<1078530011, 1078530011, 1036831949, 1036831949>> }

\* The lengths of the buffers the consumer passes to read().
BuffLens == {3, 8}

NoOne == "none"

\* Number of enable_connect() calls a behaviour may request.
MaxSessions == 2

\* Number of player events the players send in a behaviour of SpecEvents;
\* a PlayerEventChannel is unbounded and buffers them all.
MaxEvents == 3

\* Number of player events the players send in a behaviour of SpecControl.
MaxEventsControl == 1

\* Connect sessions are numbered in creation order; 0 is Option::None for
\* spirc, and the event channel Player::new returned in SpotifyPlayer::new.
Sessions == 1 .. MaxSessions
Streams == 0 .. MaxSessions

\* Number of voice_state_update invocations under way at a time in
\* SpecControl.
MaxHandlers == 2

\* Number of voice_state_update invocations under way at a time in
\* SpecEvents.
MaxHandlersEvents == 1

\* The tasks serenity spawns for voice_state_update, and the one for ready.
\* A slot is used while the slots before it are busy.
HandlerNames == << "h1", "h2", "h3" >>
Handlers == { HandlerNames[i] : i \in 1..MaxHandlers }
HandlersEvents == { HandlerNames[i] : i \in 1..MaxHandlersEvents }
Ready == "ready"
Callers == Handlers \cup {Ready}
Coord == "coord"

\* new.user_id: the user of UserIdKey or another one.
Watched == "watched"
Users == {"watched", "other"}

\* channel_id: Option<ChannelId>.
NoChannel == "none"
Channels == {"A", "B"}

\* old: Option<VoiceState>: None, or a state with or without a channel.
Absent == "absent"
OldStates == {Absent, NoChannel} \cup Channels
NewStates == {NoChannel} \cup Channels

\* The channel the guild cache holds for the watched user when the program
\* starts.
ReadyChannels == {NoChannel, "A"}

\* The notifications delivered: every (old, new) for the watched user, and
\* for another user one of each kind (joined, left, moved).
Notifications ==
    { <<Watched, old, new>> : old \in OldStates, new \in NewStates }
        \cup { <<"other", Absent, "A">>, <<"other", "A", NoChannel>>,
               <<"other", "A", "B">> }

\* PlayerEvent, the variants the event loop tells apart.
PlayerEvents == {"Stopped", "Started", "Paused", "Playing", "Other"}

VARIABLES
    threads,        \* the threads that own a clone of the sink
    channel,        \* the bytes buffered in the sync_channel, oldest first
    senderLock,     \* who holds Mutex<SyncSender<u8>>
    receiverLock,   \* who holds Mutex<Receiver<u8>>
    wpc,            \* per producer: position inside write()
    resampled,      \* per producer: the resampled block of the current write()
    wi,             \* per producer: index of the sample being encoded
    wj,             \* per producer: index of the byte of that sample being sent
    rpc,            \* per reader: position inside read()
    bufflen,        \* per reader: buff.len() of the current read()
    buff,           \* per reader: the bytes stored into buff so far
    rret,           \* per reader: the value the last read() returned
    rstart,         \* per reader: bytes handed out before this read() locked
    writesStarted,  \* number of write() calls started
    encLog,         \* the blocks written, in the order write() locked the sender
    encBy,          \* the producer of each block of encLog
    crashed,        \* the producers whose thread has panicked
    delivered,      \* the bytes returned by read() calls, in return order
    pushedCount,    \* bytes sent into the channel
    pulledCount     \* bytes received from the channel

bridgeVars ==
    << threads, channel, senderLock, receiverLock, wpc, resampled, wi, wj, rpc, bufflen,
       buff, rret, rstart, writesStarted, encLog, encBy, crashed, delivered,
       pushedCount, pulledCount >>

VARIABLES
    playerLock,        \* who holds Arc<Mutex<SpotifyPlayer>>
    chanLock,          \* who holds Arc<Mutex<PlayerEventChannel>>
    spirc,             \* SpotifyPlayer.spirc: 0 or the session of the handle
    eventChannel,      \* the stream stored in SpotifyPlayer.event_channel
    task,              \* per session: the spawned spirc task
    shutdownRequested, \* per session: a Shutdown command waits for its task
    stream,            \* per stream: the player events buffered, oldest first
    eventsSent,        \* number of player events sent
    sessionsCreated,   \* number of Spirc::new calls
    enablesRequested,  \* number of enable_connect() calls requested
    hpc,               \* per caller: position inside the handler
    hargs,             \* per caller: the notification it handles
    hcalls,            \* per caller: the calls this invocation has made
    hsession,          \* per caller: the session its enable_connect created
    cpc,               \* position of the event loop spawned by ready
    snapshotChannel,   \* the watched user's channel in the guild ready cloned
    currentChannel,    \* the watched user's channel as last reported to the bot
    ccalls             \* what the event loop's iteration has done so far

controlVars ==
    << playerLock, chanLock, spirc, eventChannel, task, shutdownRequested,
       stream, eventsSent, sessionsCreated, enablesRequested, hpc, hargs,
       hcalls, hsession, cpc, snapshotChannel, currentChannel, ccalls >>

vars == << bridgeVars, controlVars >>

(***************************************************************************)
(* Pure helpers                                                            *)
(***************************************************************************)

\* LittleEndian::write_f32_into(&[i], &mut new): the four bytes of one f32,
\* least significant first.
WriteF32Into(w) ==
    << w % 256, (w \div 256) % 256, (w \div 65536) % 256, (w \div 16777216) % 256 >>

RECURSIVE EncodeBlock(_)
\* The encoding of one block: the four bytes of every sample, in sample order.
EncodeBlock(block) ==
    IF block = << >> THEN << >>
    ELSE WriteF32Into(Head(block)) \o EncodeBlock(Tail(block))

RECURSIVE ConcatEncodings(_)
\* The concatenation of the encodings of a sequence of blocks.
ConcatEncodings(blocks) ==
    IF blocks = << >> THEN << >>
    ELSE EncodeBlock(Head(blocks)) \o ConcatEncodings(Tail(blocks))

IsPrefix(s, t) == Len(s) <= Len(t) /\ s = SubSeq(t, 1, Len(s))

\* The byte write()'s loops send next: byte j of sample i of the block.
NextByteReversed(block, i, j) == WriteF32Into(block[i])[5 - j]
NextByte(block, i, j) == WriteF32Into(block[i])[j]

\* SyncSender::send returns only once the byte is in the buffer, and the
\* buffer of sync_channel(24) holds at most 24 bytes.
CanSendOverfull(ch) == Len(ch) <= Capacity
CanSend(ch) == Len(ch) < Capacity

\* Receiver::recv returns once a byte is buffered.
CanRecv(ch) == ch # << >>

\* read()'s loop `for i in 0..buff.len()` is over once every index is stored.
ReadLoopDoneShort(r) ==
    Len(buff[r]) = bufflen[r] \/ (Len(buff[r]) > 0 /\ channel = << >>)
ReadLoopDone(r) == Len(buff[r]) = bufflen[r]

\* tokio::sync::Mutex::lock().await returns once no guard of the mutex lives.
CanLockHeld(lock) == TRUE
CanLock(lock) == lock = NoOne

\* write()'s outer loop `for i in resampled` is over.
WriteLoopDone(p) == wi[p] > Len(resampled[p])

(***************************************************************************)
(* EmittedSink: new, write, read                                           *)
(***************************************************************************)

InitChannel ==
    /\ channel = << >>
    /\ senderLock = NoOne
    /\ receiverLock = NoOne
    /\ wpc = [p \in Producers |-> "idle"]
    /\ resampled = [p \in Producers |-> << >>]
    /\ wi = [p \in Producers |-> 1]
    /\ wj = [p \in Producers |-> 1]
    /\ rpc = [r \in Readers |-> "idle"]
    /\ bufflen = [r \in Readers |-> 0]
    /\ buff = [r \in Readers |-> << >>]
    /\ rret = [r \in Readers |-> 0]
    /\ rstart = [r \in Readers |-> 0]
    /\ writesStarted = 0
    /\ encLog = << >>
    /\ encBy = << >>
    /\ crashed = {}
    /\ delivered = << >>
    /\ pushedCount = 0
    /\ pulledCount = 0

\* Two playback engines and two audio inputs hold clones of the sink.
InitBridge == threads = Producers \cup Readers /\ InitChannel

\* One playback engine and one audio input hold clones of the sink.
InitBridgePair == threads = {"p1", "r1"} /\ InitChannel

\* write(): samplerate::convert(...).unwrap() yields the resampled block.
WriteStart(p, block) ==
    /\ p \in threads
    /\ p \notin crashed
    /\ wpc[p] = "idle"
    /\ writesStarted < MaxWrites
    /\ writesStarted' = writesStarted + 1
    /\ resampled' = [resampled EXCEPT ![p] = block]
    /\ wpc' = [wpc EXCEPT ![p] = "lock"]
    /\ UNCHANGED << controlVars, threads, crashed, encBy, channel, senderLock, receiverLock, wi, wj, rpc, bufflen, buff,
                    rret, rstart, encLog, delivered, pushedCount,
                    pulledCount >>

\* write(): samplerate::convert(...) yields Err and unwrap() panics: the
\* thread of the producer ends inside write(), before the sender is locked.
WriteFail(p) ==
    /\ p \in threads
    /\ p \notin crashed
    /\ wpc[p] = "idle"
    /\ writesStarted < MaxWrites
    /\ writesStarted' = writesStarted + 1
    /\ crashed' = crashed \cup {p}
    /\ UNCHANGED << controlVars, threads, encBy, channel, senderLock,
                    receiverLock, wpc, resampled, wi, wj, rpc, bufflen, buff,
                    rret, rstart, encLog, delivered, pushedCount,
                    pulledCount >>

\* write(): self.sender.lock().await
WriteLock(p) ==
    /\ wpc[p] = "lock"
    /\ CanLock(senderLock)
    /\ senderLock' = p
    /\ wi' = [wi EXCEPT ![p] = 1]
    /\ wj' = [wj EXCEPT ![p] = 1]
    /\ wpc' = [wpc EXCEPT ![p] = "send"]
    /\ encLog' = Append(encLog, resampled[p])
    /\ encBy' = Append(encBy, p)
    /\ UNCHANGED << controlVars, threads, crashed, channel, receiverLock, resampled, rpc, bufflen, buff, rret,
                    rstart, writesStarted, delivered, pushedCount,
                    pulledCount >>

\* write(): sender.send(*j).unwrap() for the next byte of the next sample.
WriteSend(p) ==
    /\ wpc[p] = "send"
    /\ ~WriteLoopDone(p)
    /\ CanSend(channel)
    /\ channel' = Append(channel, NextByte(resampled[p], wi[p], wj[p]))
    /\ pushedCount' = pushedCount + 1
    /\ IF wj[p] = 4
         THEN /\ wi' = [wi EXCEPT ![p] = wi[p] + 1]
              /\ wj' = [wj EXCEPT ![p] = 1]
         ELSE /\ wj' = [wj EXCEPT ![p] = wj[p] + 1]
              /\ UNCHANGED wi
    /\ UNCHANGED << controlVars, threads, crashed, encBy, senderLock, receiverLock, wpc, resampled, rpc, bufflen, buff,
                    rret, rstart, writesStarted, encLog, delivered,
                    pulledCount >>

\* write(): Ok(()) once every sample is sent; the sender guard and the
\* resampled block are dropped.
WriteReturn(p) ==
    /\ wpc[p] = "send"
    /\ WriteLoopDone(p)
    /\ senderLock' = NoOne
    /\ resampled' = [resampled EXCEPT ![p] = << >>]
    /\ wi' = [wi EXCEPT ![p] = 1]
    /\ wj' = [wj EXCEPT ![p] = 1]
    /\ wpc' = [wpc EXCEPT ![p] = "idle"]
    /\ UNCHANGED << controlVars, threads, crashed, encBy, channel, receiverLock, rpc, bufflen, buff, rret, rstart,
                    writesStarted, encLog, delivered, pushedCount, pulledCount >>

\* read(buff) is called with a buffer of n bytes.
ReadStart(r, n) ==
    /\ r \in threads
    /\ rpc[r] = "idle"
    /\ bufflen' = [bufflen EXCEPT ![r] = n]
    /\ rpc' = [rpc EXCEPT ![r] = "lock"]
    /\ UNCHANGED << controlVars, threads, crashed, encBy, channel, senderLock, receiverLock, wpc, resampled, wi, wj, buff,
                    rret, rstart, writesStarted, encLog, delivered,
                    pushedCount, pulledCount >>

\* read(): self.receiver.lock().await
ReadLock(r) ==
    /\ rpc[r] = "lock"
    /\ CanLock(receiverLock)
    /\ receiverLock' = r
    /\ buff' = [buff EXCEPT ![r] = << >>]
    /\ rstart' = [rstart EXCEPT ![r] = Len(delivered)]
    /\ rpc' = [rpc EXCEPT ![r] = "recv"]
    /\ UNCHANGED << controlVars, threads, crashed, encBy, channel, senderLock, wpc, resampled, wi, wj, bufflen, rret,
                    writesStarted, encLog, delivered, pushedCount,
                    pulledCount >>

\* read(): buff[i] = receiver.recv().unwrap()
ReadRecv(r) ==
    /\ rpc[r] = "recv"
    /\ ~ReadLoopDone(r)
    /\ CanRecv(channel)
    /\ buff' = [buff EXCEPT ![r] = Append(buff[r], Head(channel))]
    /\ channel' = Tail(channel)
    /\ pulledCount' = pulledCount + 1
    /\ UNCHANGED << controlVars, threads, crashed, encBy, senderLock, receiverLock, wpc, resampled, wi, wj, rpc, bufflen,
                    rret, rstart, writesStarted, encLog, delivered,
                    pushedCount >>

\* read(): Ok(buff.len()); the receiver guard is dropped and the caller
\* takes the bytes of buff.
ReadReturn(r) ==
    /\ rpc[r] = "recv"
    /\ ReadLoopDone(r)
    /\ rret' = [rret EXCEPT ![r] = bufflen[r]]
    /\ delivered' = delivered \o buff[r]
    /\ buff' = [buff EXCEPT ![r] = << >>]
    /\ rstart' = [rstart EXCEPT ![r] = 0]
    /\ receiverLock' = NoOne
    /\ rpc' = [rpc EXCEPT ![r] = "idle"]
    /\ UNCHANGED << controlVars, threads, crashed, encBy, channel, senderLock, wpc, resampled, wi, wj, bufflen,
                    writesStarted, encLog, pushedCount, pulledCount >>

NextBridge ==
    \/ \E p \in Producers : \E block \in ResampledBlocks : WriteStart(p, block)
    \/ \E p \in Producers : WriteFail(p)
    \/ \E p \in Producers : WriteLock(p)
    \/ \E p \in Producers : WriteSend(p)
    \/ \E p \in Producers : WriteReturn(p)
    \/ \E r \in Readers : \E n \in BuffLens : ReadStart(r, n)
    \/ \E r \in Readers : ReadLock(r)
    \/ \E r \in Readers : ReadRecv(r)
    \/ \E r \in Readers : ReadReturn(r)

(***************************************************************************)
(* SpotifyPlayer: new, enable_connect, disable_connect; Handler: ready,    *)
(* voice_state_update and the player-event loop                            *)
(***************************************************************************)

NoArgs == [user |-> "none", old |-> "none", new |-> "none"]
\* What one invocation of a handler has done: its calls of enable_connect,
\* disable_connect, Spirc::shutdown and Songbird::join (the channels joined),
\* what ctx.cache.guilds() listed if it was read, and whether the handler
\* panicked. It is kept for one step after the handler returns.
NoCalls ==
    [enable |-> 0, disable |-> 0, shutdown |-> 0, join |-> << >>,
     guilds |-> "unread", panic |-> 0]

\* What one iteration of the event loop has done: the set_presence call it
\* made if any ("cleared" for None, "listening" for an activity), whether it
\* called Songbird::leave, the channel it joined, whether it called
\* play_source, and the event it received. It is kept for one step after the
\* iteration ends.
NoEffects ==
    [event |-> "none", presence |-> "unset", leave |-> 0, join |-> NoChannel,
     play |-> 0]

\* Event loop: the arms that start with c.set_presence(None, Online).
ClearsPresence(e) == e \in {"Stopped", "Paused"}

\* Event loop: the arm that goes on to songbird::get and manager.leave.
LeavesCallOnPause(e) == e \in {"Stopped", "Paused"}
LeavesCall(e) == e = "Stopped"

\* Event loop, Playing: the presence is set only `if let Ok(artist)`.
PresenceAfterArtistAlways(ok) == "listening"
PresenceAfterArtist(ok) == IF ok THEN "listening" ELSE "unset"

\* Result<Track, MercuryError> of the track lookup: Err, or Ok with a track
\* that lists an artist or none.
TrackResults == {"err", "ok", "no_artists"}

\* The channel a voice state places the user in: none if there is no state
\* or the state has no channel.
ChannelOf(state) == IF state \in Channels THEN state ELSE NoChannel

\* voice_state_update: the branch a notification takes, up to the first
\* point where the handler waits.
VsuBranchDisconnectFirst(user, old, new) ==
    IF user # Watched THEN "return"
    ELSE IF new = NoChannel THEN "disable_lock"
    ELSE IF old = Absent THEN "enable_lock"
    ELSE IF old = NoChannel THEN "panic"
    ELSE IF old # new THEN "move"
    ELSE "return"
VsuBranchNoDisconnect(user, old, new) ==
    IF user # Watched THEN "return"
    ELSE IF old = Absent THEN "enable_lock"
    ELSE IF old = NoChannel THEN "panic"
    ELSE IF old # new THEN "move"
    ELSE "return"
VsuBranch(user, old, new) ==
    IF user # Watched THEN "return"
    ELSE IF old = Absent THEN "enable_lock"
    ELSE IF old \in Channels /\ new = NoChannel THEN "disable_lock"
    ELSE IF old = NoChannel THEN "panic"
    ELSE IF old # new THEN "move"
    ELSE "return"

\* A player's event stream stays open while its player lives, that is while
\* the spirc task that owns the player runs; the player of SpotifyPlayer::new
\* is dropped when new returns.
StreamOpen(s) == s # 0 /\ task[s] = "running"

\* A stream whose receiver exists: stored in event_channel, or the local
\* player_events of an enable_connect under way.
HasReceiver(s) ==
    \/ s = eventChannel
    \/ \E c \in Callers : hpc[c] = "enable_chan" /\ hsession[c] = s

\* disable_connect: `if let Some(spirc) = self.spirc.as_ref()`.
HasSpirc == spirc # 0

\* The record of the iteration of the event loop in progress: the record of
\* an iteration that has ended is dropped.
Settle(calls) == IF cpc = "top" THEN NoEffects ELSE calls

\* The records of the invocations in progress: the record of a
\* voice_state_update that has returned is dropped.
Forget(calls) ==
    [c \in Callers |->
        IF c \in Handlers /\ hpc[c] = "idle" THEN NoCalls ELSE calls[c]]

InitControl ==
    /\ playerLock = NoOne
    /\ chanLock = NoOne
    /\ spirc = 0
    /\ eventChannel = 0
    /\ task = [s \in Sessions |-> "none"]
    /\ shutdownRequested = [s \in Sessions |-> FALSE]
    /\ stream = [s \in Streams |-> << >>]
    /\ eventsSent = 0
    /\ sessionsCreated = 0
    /\ enablesRequested = 0
    /\ hpc = [c \in Callers |-> IF c = Ready THEN "start" ELSE "idle"]
    /\ hargs = [c \in Callers |-> NoArgs]
    /\ hcalls = [c \in Callers |-> NoCalls]
    /\ hsession = [c \in Callers |-> 0]
    /\ cpc = "unspawned"
    /\ snapshotChannel = NoChannel
    /\ currentChannel \in ReadyChannels
    /\ ccalls = NoEffects

\* ready: the guild lookup, the watched user's channel in the guild cloned
\* from the cache as the notifications handled so far have left it, and the
\* decision to enable casting.
ReadyStart(guildCached) ==
    /\ hpc[Ready] = "start"
    /\ (guildCached /\ currentChannel # NoChannel)
            => enablesRequested < MaxSessions
    /\ IF ~guildCached
         THEN /\ hpc' = [hpc EXCEPT ![Ready] = "panicked"]
              /\ UNCHANGED << snapshotChannel, enablesRequested >>
         ELSE /\ snapshotChannel' = currentChannel
              /\ IF currentChannel # NoChannel
                   THEN /\ hpc' = [hpc EXCEPT ![Ready] = "enable_lock"]
                        /\ enablesRequested' = enablesRequested + 1
                   ELSE /\ hpc' = [hpc EXCEPT ![Ready] = "spawn"]
                        /\ UNCHANGED enablesRequested
    /\ UNCHANGED << eventsSent, bridgeVars, playerLock, chanLock, spirc, eventChannel, task,
                    shutdownRequested, stream, sessionsCreated, hargs, hsession, cpc, currentChannel >>
    /\ ccalls' = Settle(ccalls)
    /\ hcalls' = Forget(hcalls)

\* ready: tokio::spawn of the event loop.
ReadySpawn ==
    /\ hpc[Ready] = "spawn"
    /\ hpc' = [hpc EXCEPT ![Ready] = "finished"]
    /\ cpc' = "top"
    /\ UNCHANGED << eventsSent, bridgeVars, playerLock, chanLock, spirc, eventChannel, task,
                    shutdownRequested, stream, sessionsCreated, enablesRequested,
                    hargs, hsession, snapshotChannel,
                    currentChannel >>
    /\ ccalls' = Settle(ccalls)
    /\ hcalls' = Forget(hcalls)

\* voice_state_update is called with (old, new) for a user, and runs up to
\* the first point where it waits; a branch that does not wait is over. The
\* old state of the watched user is the one cached from the notification
\* before, so it places the user where that notification did.
Notify(h, user, old, new) ==
    /\ hpc[h] = "idle"
    /\ \A i \in 1..MaxHandlers :
          HandlerNames[i] = h
              => \A j \in 1..(i - 1) : hpc[HandlerNames[j]] # "idle"
    /\ user = Watched => ChannelOf(old) = currentChannel
    /\ VsuBranch(user, old, new) = "enable_lock" => enablesRequested < MaxSessions
    /\ IF VsuBranch(user, old, new) \in {"return", "panic"}
         THEN /\ hpc' = hpc
              /\ hargs' = hargs
              /\ hcalls' = [Forget(hcalls) EXCEPT ![h] =
                    [NoCalls EXCEPT !.panic =
                        IF VsuBranch(user, old, new) = "panic" THEN 1 ELSE 0]]
         ELSE /\ hpc' = [hpc EXCEPT ![h] = VsuBranch(user, old, new)]
              /\ hargs' = [hargs EXCEPT ![h] =
                    [user |-> user, old |-> old, new |-> new]]
              /\ hcalls' = [Forget(hcalls) EXCEPT ![h] = NoCalls]
    /\ currentChannel' = IF user = Watched THEN new ELSE currentChannel
    /\ enablesRequested' =
         IF VsuBranch(user, old, new) = "enable_lock"
           THEN enablesRequested + 1 ELSE enablesRequested
    /\ UNCHANGED << eventsSent, bridgeVars, playerLock, chanLock, spirc, eventChannel, task,
                    shutdownRequested, stream, sessionsCreated, hsession, cpc,
                    snapshotChannel >>
    /\ ccalls' = Settle(ccalls)

\* player.lock().await.enable_connect(): Player::new, Spirc::new, the spawn
\* of the task and self.spirc = Some(..), up to event_channel.lock().await.
EnableConnect(c) ==
    /\ hpc[c] = "enable_lock"
    /\ playerLock = NoOne
    /\ playerLock' = c
    /\ sessionsCreated' = sessionsCreated + 1
    /\ task' = [task EXCEPT ![sessionsCreated + 1] = "running"]
    /\ spirc' = sessionsCreated + 1
    /\ hsession' = [hsession EXCEPT ![c] = sessionsCreated + 1]
    /\ hcalls' = [Forget(hcalls) EXCEPT ![c].enable = hcalls[c].enable + 1]
    /\ hpc' = [hpc EXCEPT ![c] = "enable_chan"]
    /\ UNCHANGED << eventsSent, bridgeVars, chanLock, eventChannel, shutdownRequested, stream,
                    enablesRequested, hargs, cpc, snapshotChannel,
                    currentChannel >>
    /\ ccalls' = Settle(ccalls)

\* enable_connect: the stream `*channel_lock = player_events` stores.
InstalledFirstOnly(c) == IF hsession[c] > 1 THEN eventChannel ELSE hsession[c]
Installed(c) == hsession[c]

\* enable_connect: *channel_lock = player_events, then both guards drop.
\* The receiver stored before is dropped with what it buffered.
EnableInstall(c) ==
    /\ hpc[c] = "enable_chan"
    /\ chanLock = NoOne
    /\ eventChannel' = Installed(c)
    /\ stream' = [stream EXCEPT ![eventChannel] = << >>]
    /\ playerLock' = NoOne
    /\ hsession' = [hsession EXCEPT ![c] = 0]
    /\ hpc' = [hpc EXCEPT ![c] = IF c = Ready THEN "spawn" ELSE "idle"]
    /\ hargs' = [hargs EXCEPT ![c] = NoArgs]
    /\ UNCHANGED << eventsSent, bridgeVars, chanLock, spirc, task, shutdownRequested,
                    sessionsCreated, enablesRequested, cpc,
                    snapshotChannel,
                    currentChannel >>
    /\ ccalls' = Settle(ccalls)
    /\ hcalls' = Forget(hcalls)

\* player.lock().await.disable_connect(): Spirc::shutdown sends the Shutdown
\* command to the task of self.spirc; a task that has ended never takes it.
DisableConnect(h) ==
    /\ hpc[h] = "disable_lock"
    /\ playerLock = NoOne
    /\ IF HasSpirc
         THEN /\ shutdownRequested' =
                    [shutdownRequested EXCEPT ![spirc] = task[spirc] = "running"]
              /\ hcalls' = [Forget(hcalls) EXCEPT ![h].disable = hcalls[h].disable + 1,
                                          ![h].shutdown = hcalls[h].shutdown + 1]
         ELSE /\ hcalls' = [Forget(hcalls) EXCEPT ![h].disable = hcalls[h].disable + 1]
              /\ UNCHANGED shutdownRequested
    /\ hpc' = [hpc EXCEPT ![h] = "idle"]
    /\ hargs' = [hargs EXCEPT ![h] = NoArgs]
    /\ UNCHANGED << eventsSent, bridgeVars, playerLock, chanLock, spirc, eventChannel, task,
                    stream, sessionsCreated, enablesRequested, hsession, cpc,
                    snapshotChannel,
                    currentChannel >>
    /\ ccalls' = Settle(ccalls)

\* voice_state_update, "user moved channels": songbird::get and
\* ctx.cache.guilds() have returned; with a guild listed manager.join is
\* called for the first one and awaited, with none the handler returns.
VsuMove(h, guildCached) ==
    /\ hpc[h] = "move"
    /\ IF guildCached
         THEN /\ hcalls' = [Forget(hcalls) EXCEPT
                              ![h].guilds = "some",
                              ![h].join = Append(hcalls[h].join, hargs[h].new)]
              /\ hpc' = [hpc EXCEPT ![h] = "move_join"]
              /\ hargs' = hargs
         ELSE /\ hcalls' = [Forget(hcalls) EXCEPT ![h].guilds = "none"]
              /\ hpc' = [hpc EXCEPT ![h] = "idle"]
              /\ hargs' = [hargs EXCEPT ![h] = NoArgs]
    /\ UNCHANGED << eventsSent, bridgeVars, playerLock, chanLock, spirc, eventChannel, task,
                    shutdownRequested, stream, sessionsCreated, enablesRequested,
                    hsession, cpc, snapshotChannel,
                    currentChannel >>
    /\ ccalls' = Settle(ccalls)

\* voice_state_update, "user moved channels": manager.join(..).await is over
\* and the handler returns.
VsuMoveReturn(h) ==
    /\ hpc[h] = "move_join"
    /\ hpc' = [hpc EXCEPT ![h] = "idle"]
    /\ hargs' = [hargs EXCEPT ![h] = NoArgs]
    /\ hcalls' = Forget(hcalls)
    /\ UNCHANGED << eventsSent, bridgeVars, playerLock, chanLock, spirc, eventChannel, task,
                    shutdownRequested, stream, sessionsCreated, enablesRequested,
                    hsession, cpc, snapshotChannel, currentChannel >>
    /\ ccalls' = Settle(ccalls)

\* The spirc task takes the Shutdown command and ends; its player is dropped.
TaskShutdown(s) ==
    /\ task[s] = "running"
    /\ shutdownRequested[s]
    /\ task' = [task EXCEPT ![s] = "exited"]
    /\ shutdownRequested' = [shutdownRequested EXCEPT ![s] = FALSE]
    /\ UNCHANGED << eventsSent, bridgeVars, playerLock, chanLock, spirc, eventChannel,
                    stream, sessionsCreated, enablesRequested,
                    hpc, hargs, hsession, cpc, snapshotChannel,
                    currentChannel >>
    /\ ccalls' = Settle(ccalls)
    /\ hcalls' = Forget(hcalls)

\* The session ends on its own; the task ends and its player is dropped.
TaskEnds(s) ==
    /\ task[s] = "running"
    /\ ~shutdownRequested[s]
    /\ task' = [task EXCEPT ![s] = "exited"]
    /\ UNCHANGED << eventsSent, bridgeVars, playerLock, chanLock, spirc, eventChannel,
                    shutdownRequested, stream, sessionsCreated, enablesRequested,
                    hpc, hargs, hsession, cpc, snapshotChannel,
                    currentChannel >>
    /\ ccalls' = Settle(ccalls)
    /\ hcalls' = Forget(hcalls)

\* The player of a running session sends an event into its stream; the
\* channel is unbounded, and a send fails once the receiver is dropped.
EmitEvent(s, e) ==
    /\ task[s] = "running"
    /\ HasReceiver(s)
    /\ eventsSent < MaxEvents
    /\ eventsSent' = eventsSent + 1
    /\ stream' = [stream EXCEPT ![s] = Append(stream[s], e)]
    /\ UNCHANGED << bridgeVars, playerLock, chanLock, spirc, eventChannel, task,
                    shutdownRequested, sessionsCreated, enablesRequested, hpc,
                    hargs, hsession, cpc, snapshotChannel,
                    currentChannel >>
    /\ ccalls' = Settle(ccalls)
    /\ hcalls' = Forget(hcalls)

\* Event loop: player.lock().await.event_channel.clone().unwrap()
CoordGetChannel ==
    /\ cpc = "top"
    /\ playerLock = NoOne
    /\ cpc' = "chan_lock"
    /\ ccalls' = NoEffects
    /\ UNCHANGED << eventsSent, bridgeVars, playerLock, chanLock, spirc, eventChannel, task,
                    shutdownRequested, stream, sessionsCreated, enablesRequested,
                    hpc, hargs, hsession, snapshotChannel,
                    currentChannel >>
    /\ hcalls' = Forget(hcalls)

\* Event loop: channel.lock().await
CoordLockChannel ==
    /\ cpc = "chan_lock"
    /\ chanLock = NoOne
    /\ chanLock' = Coord
    /\ cpc' = "recv"
    /\ UNCHANGED << eventsSent, bridgeVars, playerLock, spirc, eventChannel, task,
                    shutdownRequested, stream, sessionsCreated, enablesRequested,
                    hpc, hargs, hsession, snapshotChannel,
                    currentChannel, ccalls >>
    /\ hcalls' = Forget(hcalls)

\* Event loop: receiver.recv().await is None, `continue` drops the guard.
CoordRecvNone ==
    /\ cpc = "recv"
    /\ stream[eventChannel] = << >>
    /\ ~StreamOpen(eventChannel)
    /\ chanLock' = NoOne
    /\ cpc' = "top"
    /\ UNCHANGED << eventsSent, bridgeVars, playerLock, spirc, eventChannel, task,
                    shutdownRequested, stream, sessionsCreated, enablesRequested,
                    hpc, hargs, hsession, snapshotChannel,
                    currentChannel, ccalls >>
    /\ hcalls' = Forget(hcalls)

\* Event loop: Stopped, Paused or another event is received. The Stopped arm
\* and the Paused arm call c.set_presence(None, Online) and await it with the
\* receiver guard held; the `_` arm does nothing, the iteration ends and the
\* guard drops.
CoordSimpleEvent ==
    /\ cpc = "recv"
    /\ stream[eventChannel] # << >>
    /\ Head(stream[eventChannel]) \in {"Stopped", "Paused", "Other"}
    /\ stream' = [stream EXCEPT ![eventChannel] = Tail(stream[eventChannel])]
    /\ IF ClearsPresence(Head(stream[eventChannel]))
         THEN /\ ccalls' = [ccalls EXCEPT !.event = Head(stream[eventChannel]),
                                          !.presence = "cleared"]
              /\ chanLock' = chanLock
              /\ cpc' = "presence_wait"
         ELSE /\ ccalls' = [ccalls EXCEPT !.event = Head(stream[eventChannel])]
              /\ chanLock' = NoOne
              /\ cpc' = "top"
    /\ UNCHANGED << eventsSent, bridgeVars, playerLock, spirc, eventChannel, task,
                    shutdownRequested, sessionsCreated, enablesRequested, hpc,
                    hargs, hsession, snapshotChannel,
                    currentChannel >>
    /\ hcalls' = Forget(hcalls)

\* Event loop: set_presence(None, Online).await is over. The Paused arm ends
\* here; the Stopped arm goes on to songbird::get(&c).await.
CoordPresenceReturn ==
    /\ cpc = "presence_wait"
    /\ IF LeavesCall(ccalls.event)
         THEN chanLock' = chanLock /\ cpc' = "stopped_get"
         ELSE chanLock' = NoOne /\ cpc' = "top"
    /\ UNCHANGED << eventsSent, bridgeVars, playerLock, spirc, eventChannel, task,
                    shutdownRequested, stream, sessionsCreated, enablesRequested,
                    hpc, hargs, hsession, snapshotChannel, currentChannel,
                    ccalls >>
    /\ hcalls' = Forget(hcalls)

\* Event loop: Stopped, songbird::get has returned the manager main
\* registered; manager.leave(guild.id) is called and awaited.
CoordStoppedLeave ==
    /\ cpc = "stopped_get"
    /\ cpc' = "arm_wait"
    /\ ccalls' = [ccalls EXCEPT !.leave = ccalls.leave + 1]
    /\ UNCHANGED << eventsSent, bridgeVars, playerLock, chanLock, spirc, eventChannel,
                    task, shutdownRequested, stream, sessionsCreated,
                    enablesRequested, hpc, hargs, hsession, snapshotChannel,
                    currentChannel >>
    /\ hcalls' = Forget(hcalls)

\* Event loop: Started is received; next is songbird::get(&c).await.
CoordStarted ==
    /\ cpc = "recv"
    /\ stream[eventChannel] # << >>
    /\ Head(stream[eventChannel]) = "Started"
    /\ stream' = [stream EXCEPT ![eventChannel] = Tail(stream[eventChannel])]
    /\ cpc' = "started_get"
    /\ ccalls' = [ccalls EXCEPT !.event = "Started"]
    /\ UNCHANGED << eventsSent, bridgeVars, playerLock, chanLock, spirc, eventChannel, task,
                    shutdownRequested, sessionsCreated, enablesRequested, hpc,
                    hargs, hsession, snapshotChannel,
                    currentChannel >>
    /\ hcalls' = Forget(hcalls)

\* Event loop: Started, songbird::get has returned. Without a channel in the
\* cloned guild `continue`; else manager.join is called for that channel and
\* awaited.
CoordStartedJoin ==
    /\ cpc = "started_get"
    /\ IF snapshotChannel = NoChannel
         THEN /\ chanLock' = NoOne /\ cpc' = "top"
              /\ ccalls' = ccalls
         ELSE /\ chanLock' = chanLock /\ cpc' = "started_join"
              /\ ccalls' = [ccalls EXCEPT !.join = snapshotChannel]
    /\ UNCHANGED << eventsSent, bridgeVars, playerLock, spirc, eventChannel, task,
                    shutdownRequested, stream, sessionsCreated, enablesRequested,
                    hpc, hargs, hsession, snapshotChannel, currentChannel >>
    /\ hcalls' = Forget(hcalls)

\* Event loop: Started, manager.join(..).await is over, its result unused.
\* `if let Some(handler_lock) = manager.get(guild.id)`: with a call the call
\* is locked and player.lock().await for the sink is next, with none the
\* iteration ends.
CoordStartedGet(hasCall) ==
    /\ cpc = "started_join"
    /\ IF hasCall
         THEN chanLock' = chanLock /\ cpc' = "started_lock"
         ELSE chanLock' = NoOne /\ cpc' = "top"
    /\ UNCHANGED << eventsSent, bridgeVars, playerLock, spirc, eventChannel, task,
                    shutdownRequested, stream, sessionsCreated, enablesRequested,
                    hpc, hargs, hsession, snapshotChannel, currentChannel,
                    ccalls >>
    /\ hcalls' = Forget(hcalls)

\* Event loop: Started, player.lock().await.emitted_sink.clone(), set_bitrate
\* and play_source; the iteration ends.
CoordStartedPlay ==
    /\ cpc = "started_lock"
    /\ playerLock = NoOne
    /\ chanLock' = NoOne
    /\ cpc' = "top"
    /\ ccalls' = [ccalls EXCEPT !.play = ccalls.play + 1]
    /\ UNCHANGED << eventsSent, bridgeVars, playerLock, spirc, eventChannel, task,
                    shutdownRequested, stream, sessionsCreated, enablesRequested,
                    hpc, hargs, hsession, snapshotChannel,
                    currentChannel >>
    /\ hcalls' = Forget(hcalls)

\* Event loop: Playing is received; next is player.lock().await.
CoordPlaying ==
    /\ cpc = "recv"
    /\ stream[eventChannel] # << >>
    /\ Head(stream[eventChannel]) = "Playing"
    /\ stream' = [stream EXCEPT ![eventChannel] = Tail(stream[eventChannel])]
    /\ cpc' = "track_lock"
    /\ ccalls' = [ccalls EXCEPT !.event = "Playing"]
    /\ UNCHANGED << eventsSent, bridgeVars, playerLock, chanLock, spirc, eventChannel, task,
                    shutdownRequested, sessionsCreated, enablesRequested, hpc,
                    hargs, hsession, snapshotChannel,
                    currentChannel >>
    /\ hcalls' = Forget(hcalls)

\* Event loop: Playing, the player lock is taken for a metadata lookup and
\* held while the lookup is awaited.
CoordLookupLock ==
    /\ cpc \in {"track_lock", "artist_lock"}
    /\ playerLock = NoOne
    /\ playerLock' = Coord
    /\ cpc' = IF cpc = "track_lock" THEN "track_lookup" ELSE "artist_lookup"
    /\ UNCHANGED << eventsSent, bridgeVars, chanLock, spirc, eventChannel, task,
                    shutdownRequested, stream, sessionsCreated, enablesRequested,
                    hpc, hargs, hsession, snapshotChannel,
                    currentChannel, ccalls >>
    /\ hcalls' = Forget(hcalls)

\* Event loop: Playing, the track lookup ends; on Err the iteration ends, on
\* Ok the artist lookup of track.artists.first().unwrap() is next.
CoordTrackResult(res) ==
    /\ cpc = "track_lookup"
    /\ playerLock' = NoOne
    /\ IF res = "err"
         THEN chanLock' = NoOne /\ cpc' = "top"
         ELSE /\ chanLock' = chanLock
              /\ cpc' = IF res = "ok" THEN "artist_lock" ELSE "artist_unwrap"
    /\ UNCHANGED << eventsSent, bridgeVars, spirc, eventChannel, task, shutdownRequested,
                    stream, sessionsCreated, enablesRequested, hpc, hargs, hsession, snapshotChannel, currentChannel, ccalls >>
    /\ hcalls' = Forget(hcalls)

\* Event loop: Playing, the track has no artist: the player lock is taken
\* for the artist lookup, first().unwrap() panics, the guards drop and the
\* task of the event loop ends.
CoordArtistPanic ==
    /\ cpc = "artist_unwrap"
    /\ playerLock = NoOne
    /\ chanLock' = NoOne
    /\ cpc' = "panicked"
    /\ UNCHANGED << eventsSent, bridgeVars, playerLock, spirc, eventChannel, task,
                    shutdownRequested, stream, sessionsCreated, enablesRequested,
                    hpc, hargs, hsession, snapshotChannel,
                    currentChannel, ccalls >>
    /\ hcalls' = Forget(hcalls)

\* Event loop: Playing, the artist lookup ends and the player guard drops.
\* On Ok set_presence is called and awaited with the receiver guard held;
\* on Err the iteration ends.
CoordArtistResult(ok) ==
    /\ cpc = "artist_lookup"
    /\ playerLock' = NoOne
    /\ IF ok
         THEN chanLock' = chanLock /\ cpc' = "arm_wait"
         ELSE chanLock' = NoOne /\ cpc' = "top"
    /\ ccalls' = [ccalls EXCEPT !.presence = PresenceAfterArtist(ok)]
    /\ UNCHANGED << eventsSent, bridgeVars, spirc, eventChannel, task, shutdownRequested,
                    stream, sessionsCreated, enablesRequested, hpc, hargs,
                    hsession, snapshotChannel, currentChannel >>
    /\ hcalls' = Forget(hcalls)

\* Event loop: the call awaited at the end of the Stopped arm (leave) or of
\* the Playing arm (set_presence) returns; the iteration ends and the
\* receiver guard drops.
CoordArmReturn ==
    /\ cpc = "arm_wait"
    /\ chanLock' = NoOne
    /\ cpc' = "top"
    /\ UNCHANGED << eventsSent, bridgeVars, playerLock, spirc, eventChannel, task,
                    shutdownRequested, stream, sessionsCreated, enablesRequested,
                    hpc, hargs, hsession, snapshotChannel, currentChannel,
                    ccalls >>
    /\ hcalls' = Forget(hcalls)

\* Notifications handled MaxHandlers at a time, and MaxEventsControl player
\* events.
NextControl ==
    \/ \E g \in BOOLEAN : ReadyStart(g)
    \/ ReadySpawn
    \/ \E h \in Handlers : \E n \in Notifications : Notify(h, n[1], n[2], n[3])
    \/ \E c \in Callers : EnableConnect(c)
    \/ \E c \in Callers : EnableInstall(c)
    \/ \E h \in Handlers : DisableConnect(h)
    \/ \E h \in Handlers : \E g \in BOOLEAN : VsuMove(h, g)
    \/ \E h \in Handlers : VsuMoveReturn(h)
    \/ \E s \in Sessions : TaskShutdown(s)
    \/ \E s \in Sessions : TaskEnds(s)
    \/ \E s \in Sessions : \E e \in PlayerEvents :
            eventsSent < MaxEventsControl /\ EmitEvent(s, e)
    \/ CoordGetChannel
    \/ CoordLockChannel
    \/ CoordRecvNone
    \/ CoordSimpleEvent
    \/ CoordPresenceReturn
    \/ CoordStoppedLeave
    \/ CoordStarted
    \/ CoordStartedJoin
    \/ \E hasCall \in BOOLEAN : CoordStartedGet(hasCall)
    \/ CoordStartedPlay
    \/ CoordPlaying
    \/ CoordLookupLock
    \/ \E res \in TrackResults : CoordTrackResult(res)
    \/ CoordArtistPanic
    \/ \E ok \in BOOLEAN : CoordArtistResult(ok)
    \/ CoordArmReturn

\* Notifications handled MaxHandlersEvents at a time, and MaxEvents player
\* events.
NextEvents ==
    \/ \E g \in BOOLEAN : ReadyStart(g)
    \/ ReadySpawn
    \/ \E h \in HandlersEvents : \E n \in Notifications : Notify(h, n[1], n[2], n[3])
    \/ \E c \in Callers : EnableConnect(c)
    \/ \E c \in Callers : EnableInstall(c)
    \/ \E h \in HandlersEvents : DisableConnect(h)
    \/ \E h \in HandlersEvents : \E g \in BOOLEAN : VsuMove(h, g)
    \/ \E h \in HandlersEvents : VsuMoveReturn(h)
    \/ \E s \in Sessions : TaskShutdown(s)
    \/ \E s \in Sessions : TaskEnds(s)
    \/ \E s \in Sessions : \E e \in PlayerEvents : EmitEvent(s, e)
    \/ CoordGetChannel
    \/ CoordLockChannel
    \/ CoordRecvNone
    \/ CoordSimpleEvent
    \/ CoordPresenceReturn
    \/ CoordStoppedLeave
    \/ CoordStarted
    \/ CoordStartedJoin
    \/ \E hasCall \in BOOLEAN : CoordStartedGet(hasCall)
    \/ CoordStartedPlay
    \/ CoordPlaying
    \/ CoordLookupLock
    \/ \E res \in TrackResults : CoordTrackResult(res)
    \/ CoordArtistPanic
    \/ \E ok \in BOOLEAN : CoordArtistResult(ok)
    \/ CoordArmReturn

Next == NextBridge \/ NextControl \/ NextEvents

\* The state after SpotifyPlayer::new.
Init == InitBridge /\ InitControl

Spec == Init /\ [][Next]_vars

SpecControl == Init /\ [][NextControl]_vars

SpecEvents == Init /\ [][NextEvents]_vars

SpecBridge == Init /\ [][NextBridge]_vars

\* Producer and reader threads are scheduled by the operating system (weak
\* fairness of every step); tokio's Mutex hands the lock to waiters in FIFO
\* order (strong fairness of the lock steps).
FairBridge ==
    /\ \A p \in Producers :
          /\ WF_vars(\E block \in ResampledBlocks : WriteStart(p, block))
          /\ SF_vars(WriteLock(p))
          /\ WF_vars(WriteSend(p))
          /\ WF_vars(WriteReturn(p))
    /\ \A r \in Readers :
          /\ WF_vars(\E n \in BuffLens : ReadStart(r, n))
          /\ SF_vars(ReadLock(r))
          /\ WF_vars(ReadRecv(r))
          /\ WF_vars(ReadReturn(r))

\* The state after SpotifyPlayer::new with one producer and one reader.
InitPair == InitBridgePair /\ InitControl

FairSpecBridge == InitPair /\ [][NextBridge]_vars /\ FairBridge

(***************************************************************************)
(* Claims about the byte bridge                                            *)
(***************************************************************************)

\* The concatenation of the per-block encodings in write order.
FlatLog == ConcatEncodings(encLog)

\* The bytes the read() in progress has stored so far.
InProgress == IF receiverLock = NoOne THEN << >> ELSE buff[receiverLock]

\* C1: the number of bytes pushed by write() minus the number pulled by
\* read() is at least 0 and at most 24 in every reachable state.
C1_Occupancy ==
    /\ pushedCount - pulledCount >= 0
    /\ pushedCount - pulledCount <= 24

\* C1 witness: the bridge holds 24 bytes after some were pulled, and a write()
\* still has bytes to send.
C1_Witness ==
    /\ pushedCount - pulledCount = 24
    /\ pulledCount > 0
    /\ \E p \in Producers : wpc[p] = "send" /\ ~WriteLoopDone(p)

\* C2: the bytes returned by read() so far are a prefix of the concatenation
\* of the per-block encodings in write order, and the returned bytes, the
\* bytes of the read() in progress and the buffered bytes together are
\* exactly the bytes pushed so far: nothing lost, duplicated or reordered.
C2_OrderPreserved ==
    /\ IsPrefix(delivered, FlatLog)
    /\ pushedCount <= Len(FlatLog)
    /\ delivered \o InProgress \o channel = SubSeq(FlatLog, 1, pushedCount)

\* C2 witness: two different blocks were written and the bytes returned by
\* read() reach past the boundary between them.
C2_Witness ==
    /\ Len(encLog) = 2
    /\ encLog[1] # encLog[2]
    /\ Len(delivered) > Len(EncodeBlock(encLog[1]))

ProducersDone ==
    /\ writesStarted = MaxWrites \/ (threads \cap Producers) \subseteq crashed
    /\ \A p \in Producers : wpc[p] = "idle"

\* C3: while the bridge is full a write() neither pushes nor returns, while
\* it is empty a read() with bytes missing neither stores nor returns, and
\* under fair scheduling every started write() returns and every started
\* read() returns unless the producers have stopped with the bridge empty.
C3_Backpressure ==
    /\ [][\A p \in Producers :
            (wpc[p] = "send" /\ ~WriteLoopDone(p) /\ Len(channel) = 24)
                => (pushedCount' = pushedCount /\ wpc'[p] = "send"
                    /\ wi'[p] = wi[p] /\ wj'[p] = wj[p])]_vars
    /\ [][\A r \in Readers :
            (rpc[r] = "recv" /\ Len(buff[r]) < bufflen[r] /\ channel = << >>)
                => (pulledCount' = pulledCount /\ rpc'[r] = "recv"
                    /\ buff'[r] = buff[r])]_vars
    /\ \A p \in Producers : (wpc[p] # "idle") ~> (wpc[p] = "idle")
    /\ \A r \in Readers :
          (rpc[r] # "idle") ~>
              (rpc[r] = "idle" \/ (ProducersDone /\ channel = << >>))

\* C3 witness: a write() with bytes left finds the bridge full while a
\* read() is under way.
C3_Witness ==
    /\ Len(channel) = 24
    /\ \E p \in Producers : wpc[p] = "send" /\ ~WriteLoopDone(p)
    /\ \E r \in Readers : rpc[r] = "recv"

\* C4: a read() that returns has stored exactly buff.len() bytes, returns
\* that number, and the bytes are the next ones of the pushed sequence after
\* those returned before, whatever buffer lengths the reads used.
C4_ExactRead ==
    [][\A r \in Readers :
         (rpc[r] = "recv" /\ rpc'[r] = "idle")
            => /\ rret'[r] = bufflen[r]
               /\ Len(buff[r]) = bufflen[r]
               /\ rstart[r] = Len(delivered)
               /\ buff[r] = SubSeq(FlatLog, rstart[r] + 1, rstart[r] + bufflen[r])
               /\ delivered' = SubSeq(FlatLog, 1, rstart[r] + bufflen[r])]_vars

\* C4 witness: reads of 3 and of 8 bytes have both returned.
C4_Witness ==
    /\ \E r \in Readers : rret[r] = 3
    /\ \E r \in Readers : rret[r] = 8
    /\ Len(delivered) >= 11

\* The connect session a clone of the sink belongs to: enable_connect hands
\* a clone to the Player of the session it creates, and the event loop hands
\* a clone to the audio input it starts for that session.
SessionOf(t) == IF t \in {"p1", "r1"} THEN 1 ELSE 2

RECURSIVE BlockAt(_, _, _)
\* The index, counted from n, of the block whose encoding holds byte k of
\* the concatenated encodings of blocks.
BlockAt(k, blocks, n) ==
    IF k <= Len(EncodeBlock(Head(blocks))) THEN n
    ELSE BlockAt(k - Len(EncodeBlock(Head(blocks))), Tail(blocks), n + 1)

\* The producer that pushed byte k of the pushed sequence.
PushedBy(k) == encBy[BlockAt(k, encLog, 1)]

\* C11: every enable() gives its session a fresh, unshared bridge: a read()
\* on the sink of a session never pulls a byte that the sink of a session
\* created earlier pushed.
C11_FreshBridge ==
    \A r \in Readers :
        rpc[r] = "recv" =>
            \A k \in 1 .. Len(buff[r]) :
                SessionOf(PushedBy(rstart[r] + k)) >= SessionOf(r)

\* C16: a write() whose resampling fails returns an error to its caller: the
\* producer thread lives on, and no byte is pushed.
C16_ConvertFailureReported ==
    [][\A p \in Producers :
         WriteFail(p) =>
            /\ p \notin crashed'
            /\ wpc'[p] = "idle"
            /\ pushedCount' = pushedCount
            /\ channel' = channel]_vars

\* The encoded length of the block the write() holding the sender sends.
CurrentBlockLen ==
    IF senderLock = NoOne THEN 0 ELSE Len(EncodeBlock(resampled[senderLock]))

\* C20: at most one write() and at most one read() is inside the bridge; the
\* bytes pushed are whole blocks in the order write() locked the sender,
\* followed by the first bytes of the one block being sent; and the bytes a
\* read() has stored are a contiguous run of the pushed sequence that starts
\* where the reads before it ended.
C20_BlockAtomicity ==
    /\ \A p \in Producers : wpc[p] = "send" <=> senderLock = p
    /\ \A r \in Readers : rpc[r] = "recv" <=> receiverLock = r
    /\ pushedCount <= Len(FlatLog)
    /\ pushedCount >= Len(FlatLog) - CurrentBlockLen
    /\ \A r \in Readers :
          rpc[r] = "recv" =>
              /\ rstart[r] = Len(delivered)
              /\ rstart[r] + Len(buff[r]) <= pushedCount
              /\ buff[r] = SubSeq(FlatLog, rstart[r] + 1, rstart[r] + Len(buff[r]))

\* C20 witness: one write() has sent part of its block while the other
\* producer waits for the sender, and one read() has stored part of its
\* buffer while the other reader waits for the receiver.
C20_Witness ==
    /\ \E p, q \in Producers :
          /\ wpc[p] = "send" /\ wpc[q] = "lock"
          /\ pushedCount > Len(FlatLog) - CurrentBlockLen
          /\ pushedCount < Len(FlatLog)
    /\ \E r, q \in Readers :
          /\ rpc[r] = "recv" /\ rpc[q] = "lock"
          /\ buff[r] # << >> /\ Len(buff[r]) < bufflen[r]

(***************************************************************************)
(* Claims about voice_state_update, enable_connect and disable_connect     *)
(***************************************************************************)

\* The handler in slot h is handling a notification about the watched user.
Handling(h) == hpc[h] # "idle" /\ hargs[h].user = Watched

\* C5: a notification about the watched user with no old state makes the
\* handler call enable_connect exactly once by the time it returns, and
\* never disable_connect or a join, whatever the new state is.
C5_AbsentEnables ==
    [][\A h \in Handlers :
         (Handling(h) /\ hargs[h].old = Absent)
            => /\ hcalls'[h].enable <= 1
               /\ hcalls'[h].disable = 0
               /\ hcalls'[h].join = << >>
               /\ hcalls'[h].panic = 0
               /\ hpc'[h] = "idle" => hcalls'[h].enable = 1]_vars

\* C5 witness: a handler of a notification without old state has called
\* enable_connect, which has created a session.
C5_Witness ==
    \E h \in Handlers :
        /\ Handling(h) /\ hargs[h].old = Absent /\ hargs[h].new = "A"
        /\ hcalls[h].enable = 1
        /\ hsession[h] # 0

\* C6: a notification about the watched user from some channel to no channel
\* makes the handler call disable_connect exactly once by the time it
\* returns, and never enable_connect or a join.
C6_LeaveDisables ==
    [][\A h \in Handlers :
         (Handling(h) /\ hargs[h].old \in Channels /\ hargs[h].new = NoChannel)
            => /\ hcalls'[h].disable <= 1
               /\ hcalls'[h].enable = 0
               /\ hcalls'[h].join = << >>
               /\ hcalls'[h].panic = 0
               /\ hpc'[h] = "idle" => hcalls'[h].disable = 1]_vars

\* C6 witness: a handler has returned after one call of disable_connect that
\* asked the session in self.spirc to shut down.
C6_Witness ==
    \E h \in Handlers :
        /\ hpc[h] = "idle"
        /\ hcalls[h].disable = 1
        /\ hcalls[h].shutdown = 1
        /\ spirc # 0 /\ shutdownRequested[spirc]

\* C7 as claimed: a notification about the watched user from channel A to
\* channel B makes the handler, if A # B, join B once and call neither
\* enable_connect nor disable_connect, and if A = B do nothing at all.
C7_MoveJoins ==
    [][\A h \in Handlers :
         /\ (Handling(h) /\ hargs[h].old \in Channels /\ hargs[h].new \in Channels)
               => /\ hcalls'[h].enable = 0
                  /\ hcalls'[h].disable = 0
                  /\ hcalls'[h].panic = 0
                  /\ hargs[h].old # hargs[h].new
                  /\ hpc'[h] = "idle" => hcalls'[h].join = << hargs[h].new >>
         /\ \A ch \in Channels :
               Notify(h, Watched, ch, ch)
                  => hpc'[h] = "idle" /\ hcalls'[h] = NoCalls]_vars

\* No session is active: none was created, or every one created has ended
\* or has been told to shut down.
NoActiveSession ==
    \A s \in Sessions : task[s] # "running" \/ shutdownRequested[s]

\* C8: disable_connect called while no session is active calls no
\* Spirc::shutdown and leaves the state of the controller as it was.
C8_DisableIdle ==
    [][\A h \in Handlers :
         (hpc[h] = "disable_lock" /\ hpc'[h] = "idle" /\ NoActiveSession)
            => /\ hcalls'[h].shutdown = 0
               /\ UNCHANGED << spirc, eventChannel, task, shutdownRequested >>]_vars

\* enable_connect called by c has spawned its task and waits for the
\* event-channel mutex with the player mutex held, while the event loop holds
\* the event-channel mutex and waits for the player mutex: neither can go on.
EnableStuck(c) ==
    /\ hpc[c] = "enable_chan"
    /\ task[hsession[c]] = "running"
    /\ playerLock = c
    /\ chanLock = Coord
    /\ cpc \in {"started_lock", "track_lock", "artist_lock", "artist_unwrap"}

\* C9: enable() followed at once by disable() ends the task the enable
\* spawned without deadlock: a disable_connect requested while an
\* enable_connect is under way never finds that enable_connect in a circular
\* wait with the event loop, behind which the disable would wait for the
\* player mutex for ever and the task would never be told to end.
C9_EnableThenDisable ==
    [][\A c \in Callers : \A h \in Handlers :
         (/\ hpc[c] = "enable_chan"
          /\ hpc[h] = "idle"
          /\ hpc'[h] = "disable_lock")
            => ~EnableStuck(c)']_vars

\* C10: at most one connect session, and one spirc task, is live.
C10_SingleSession ==
    Cardinality({s \in Sessions : task[s] = "running"}) <= 1

(***************************************************************************)
(* Claims about the player-event loop                                      *)
(***************************************************************************)

\* C12: when the event loop processes Started it looks up the channel the
\* watched user is in at that moment, as the latest notification reported
\* it: with none it neither joins nor plays, else it joins that channel and
\* plays.
C12_StartedJoinsCurrent ==
    [][/\ CoordStartedJoin =>
            IF currentChannel = NoChannel
              THEN ccalls'.join = NoChannel /\ cpc' = "top"
              ELSE ccalls'.join = currentChannel /\ cpc' = "started_join"
       /\ CoordStartedPlay =>
            ccalls'.join = currentChannel /\ ccalls'.play = 1]_vars

\* The event loop receives an event in this step.
ReceivesEvent == cpc = "recv" /\ ccalls'.event # "none"

\* The event loop takes a step of its Stopped arm or its Paused arm: it
\* receives the event, or a call the arm awaits returns.
StoppedPausedStep ==
    /\ cpc \in {"recv", "presence_wait", "stopped_get", "arm_wait"}
    /\ cpc' # cpc
    /\ ccalls'.event \in {"Stopped", "Paused"}

\* C13: processing Stopped clears the presence and, by the time the
\* iteration ends, has asked Songbird once to leave; processing Paused
\* clears the presence and never asks to leave; neither joins, plays or
\* changes the state of the SpotifyPlayer.
C13_StoppedPaused ==
    [][StoppedPausedStep
          => /\ ccalls'.presence = "cleared"
             /\ ccalls'.leave <= IF ccalls'.event = "Stopped" THEN 1 ELSE 0
             /\ cpc' = "top"
                    => ccalls'.leave = IF ccalls'.event = "Stopped" THEN 1 ELSE 0
             /\ ccalls'.join = NoChannel
             /\ ccalls'.play = 0
             /\ UNCHANGED << spirc, eventChannel, task, shutdownRequested,
                             sessionsCreated, playerLock >>]_vars

\* C13 witness: the event loop has ended the iteration in which it received
\* Stopped from the second session, whose task runs, and Paused waits in the
\* stream behind it.
C13_Witness ==
    /\ cpc = "top"
    /\ ccalls.event = "Stopped" /\ ccalls.presence = "cleared" /\ ccalls.leave = 1
    /\ eventChannel = 2 /\ task[2] = "running"
    /\ stream[2] = << "Paused" >>

\* C14: a Playing event whose track lookup or artist lookup fails makes no
\* set_presence call, and the event loop goes on to its next iteration
\* holding neither lock; so does a wait that yields no event.
C14_LookupFailure ==
    [][(\/ CoordTrackResult("err")
        \/ CoordArtistResult(FALSE)
        \/ CoordRecvNone)
          => /\ ccalls'.presence = "unset"
             /\ ccalls'.leave = 0 /\ ccalls'.join = NoChannel /\ ccalls'.play = 0
             /\ cpc' = "top"
             /\ chanLock' # Coord
             /\ playerLock' # Coord]_vars

\* C14 witness: the event loop has ended an iteration in which it received
\* Playing and made no set_presence call.
C14_Witness ==
    /\ cpc = "top"
    /\ ccalls.event = "Playing"
    /\ ccalls.presence = "unset"

\* C15: while a metadata lookup of the event loop is pending, a handler that
\* is about to call disable_connect or enable_connect can take the player
\* lock it needs.
C15_LookupDoesNotBlock ==
    \A h \in Handlers :
        (cpc \in {"track_lookup", "artist_lookup"}
            /\ hpc[h] \in {"disable_lock", "enable_lock"})
                => CanLock(playerLock)

\* The session of the most recent enable_connect that has returned, 0 if
\* none has.
LastEnabled ==
    IF \A s \in Sessions :
          s > sessionsCreated \/ (\E c \in Callers : hsession[c] = s)
      THEN 0
      ELSE CHOOSE s \in Sessions :
              /\ s <= sessionsCreated
              /\ \A c \in Callers : hsession[c] # s
              /\ \A t \in Sessions :
                    (t <= sessionsCreated /\ \A c \in Callers : hsession[c] # t)
                        => t <= s

\* C17: once an enable_connect has returned, every event the event loop
\* receives is the oldest one buffered in the stream of the most recent
\* enable_connect that has returned, and is taken out of that stream; no
\* other stream loses or hands over an event.
C17_Resubscription ==
    [][(ReceivesEvent /\ LastEnabled > 0)
          => /\ stream[LastEnabled] # << >>
             /\ ccalls'.event = Head(stream[LastEnabled])
             /\ stream' = [stream EXCEPT ![LastEnabled] = Tail(stream[LastEnabled])]]_vars

\* C17 witness: after a second enable_connect has returned while the task
\* of the first session still runs, the event loop has received Playing, the
\* older of two events buffered in the stream of the second session.
C17_Witness ==
    /\ sessionsCreated = 2 /\ LastEnabled = 2
    /\ task[1] = "running"
    /\ cpc = "track_lock"
    /\ ccalls.event = "Playing"
    /\ stream[2] = << "Stopped" >>

\* C18: no state is reached where an enable_connect holds the player mutex
\* and waits for the event-channel mutex while the event loop holds the
\* event-channel mutex and waits for the player mutex.
C18_NoLockOrderDeadlock ==
    \A c \in Callers : ~EnableStuck(c)

\* C19: voice_state_update never panics, whatever old and new states the
\* notification about the watched user carries.
C19_NoPanic ==
    \A h \in Handlers : hcalls[h].panic = 0

====
